---- MODULE Spec2Model ----
(***************************************************************************)
(* Model of the segmentation, transcription and speaker remapping of       *)
(* GiJiRoKu:                                                               *)
(*   src/src/services/transcription.py                                     *)
(*     add_speaker_identifier, TranscriptionService.process_audio,         *)
(*     _process_with_gemini, is_problematic_transcription and its helpers  *)
(*   src/src/utils/ffmpeg_handler.py    split_media_fixed_duration         *)
(*   src/src/services/processor.py      process_audio_file                 *)
(*   src/src/modules/audio_splitter.py  AudioSplitter                      *)
(*   src/src/services/speaker_remapper.py                                  *)
(*     process_transcript, _replace_speakers, _parse_mapping_response,     *)
(*     GeminiSpeakerRemapper._get_speaker_mapping                          *)
(*   src/src/services/meeting_title_service.py                             *)
(*     process_transcript_and_generate_title                               *)
(*                                                                         *)
(* Texts.  A Python str is modelled as a sequence of pieces.  A piece is   *)
(* one character, written as a TLA+ string: ASCII characters as            *)
(* themselves, Japanese characters by their code point ("u3046").  A few   *)
(* pieces stand for a fixed run of characters that no operation of the     *)
(* program ever splits (the JSON punctuation written by json.dumps, the    *)
(* name stems of speaker labels, the echo-back marker).                    *)
(*                                                                         *)
(* A transcription text is a record [shape, items]: what json.loads and    *)
(* the regular expressions of the program see in it.  Chars(text) is the   *)
(* str itself.                                                             *)
(***************************************************************************)
EXTENDS Integers, Sequences, FiniteSets, TLC

VARIABLES
    pc,                       \* position of the service in process_audio
    has_reached_max_retries,  \* self.has_reached_max_retries
    split_files,              \* len(split_files): number of segment files
    i,                        \* segment index of the outer loop (1-based)
    attempt,                  \* attempt of the inner loop (0-based)
    segment_text,             \* segment_text of the current segment
    all_transcriptions,       \* all_transcriptions
    complete_result,          \* the intermediate JSON artifact as written
    formatted_text,           \* formatted_text
    files,                    \* artifacts of this run present on disk
    result,                   \* what process_audio returned or raised
    error,                    \* the step whose exception ended the run
    attempts,                 \* history: per segment, the outcome kinds of its calls
    returned,                 \* history: per segment, what its latest call returned
    ffmpeg,                   \* the probe and the cutting tool as this run met them
    results,                  \* results of process_audio_file (processor.py)
    call,                     \* pending call of a pure function (function specs)
    ret                       \* its return value

vars == << pc, has_reached_max_retries, split_files, i, attempt,
           segment_text, all_transcriptions, complete_result, formatted_text,
           files, result, error, attempts, returned, ffmpeg, results, call, ret >>

runVars == << pc, has_reached_max_retries, split_files, i, attempt,
              segment_text, all_transcriptions, complete_result, formatted_text,
              files, result, error, attempts, returned, ffmpeg, results >>

(***************************************************************************)
(* Bounds of the model.                                                    *)
(***************************************************************************)
MaxSegments == 2      \* segment files a split produces
MaxItems == 2         \* utterances in one generated transcription text

(***************************************************************************)
(* Program constants.                                                      *)
(***************************************************************************)
max_retries == 2              \* transcription.py:266
WordRepeatLimit == 80         \* transcription.py:447
PhraseRepeatLimit == 70       \* transcription.py:455 and :472
WholeTextPhraseLimit == 200   \* transcription.py:479

(***************************************************************************)
(* Characters.                                                             *)
(***************************************************************************)
WhiteSpace == {" ", "\n"}                      \* what \s matches
c_u == "u3046"      \* HIRAGANA U
c_n == "u3093"      \* HIRAGANA N
c_ha == "u306F"     \* HIRAGANA HA
c_i == "u3044"      \* HIRAGANA I
c_e == "u3048"      \* HIRAGANA E
c_a == "u3042"      \* HIRAGANA A
c_no == "u306E"     \* HIRAGANA NO
c_cho == "u30FC"    \* PROLONGED SOUND MARK
c_maru == "u3002"   \* IDEOGRAPHIC FULL STOP
Washa == "u8A71u8005"                  \* the stem "washa" (speaker) of a label
Supika == "u30B9u30D4u30FCu30ABu30FC"  \* the stem "supi-ka-" (speaker) of a label
Tanaka == "u7530u4E2D"                 \* a family name used as a label
Digits == {"1", "2"}

\* The class [u3000-u303F u3040-u309F u30A0-u30FF u4E00-u9FFF] of line 337,
\* for a piece's first and last character.
JapanesePieces ==
    {c_u, c_n, c_ha, c_i, c_e, c_a, c_no, c_cho, c_maru, Washa, Supika, Tanaka}

Marker == "Take minutes of the meeting"

\* problem_phrases of lines 452 and 468
problem_phrases ==
    << <<c_u, c_n, c_maru>>, <<c_ha, c_i, c_maru>>, <<c_e, c_e, c_maru>>,
       <<c_a, c_no, c_maru>>, <<c_e, c_cho, c_maru>> >>

(***************************************************************************)
(* str operations.                                                         *)
(***************************************************************************)
Indices(s) == [k \in 1..Len(s) |-> k]

\* re.sub(r'\s+', ' ', s)
CollapseWs(s) ==
    LET keep == SelectSeq(Indices(s),
                    LAMBDA k : s[k] \notin WhiteSpace \/ k = 1 \/ s[k-1] \notin WhiteSpace)
    IN [k \in 1..Len(keep) |-> IF s[keep[k]] \in WhiteSpace THEN " " ELSE s[keep[k]]]

\* s.lstrip() and s.rstrip()
LStrip(s) ==
    LET solid == SelectSeq(Indices(s), LAMBDA k : s[k] \notin WhiteSpace)
    IN IF solid = <<>> THEN <<>> ELSE SubSeq(s, solid[1], Len(s))

RStrip(s) ==
    LET solid == SelectSeq(Indices(s), LAMBDA k : s[k] \notin WhiteSpace)
    IN IF solid = <<>> THEN <<>> ELSE SubSeq(s, 1, solid[Len(solid)])

\* s.split(): the maximal runs of non-whitespace characters, in order
Split(s) ==
    LET starts == SelectSeq(Indices(s),
                    LAMBDA k : s[k] \notin WhiteSpace /\ (k = 1 \/ s[k-1] \in WhiteSpace))
        ends == SelectSeq(Indices(s),
                    LAMBDA k : s[k] \notin WhiteSpace /\ (k = Len(s) \/ s[k+1] \in WhiteSpace))
    IN [k \in 1..Len(starts) |-> SubSeq(s, starts[k], ends[k])]

\* list.count(x)
ListCount(list, x) == Cardinality({k \in 1..Len(list) : list[k] = x})

\* str.count(sub): the non-overlapping occurrences of sub.  Every sub the
\* program counts is a phrase that ends in a full stop found nowhere else in
\* it, so two occurrences never overlap and each position where sub occurs
\* counts.
StrCount(s, sub) ==
    Cardinality({k \in 1..(Len(s) - Len(sub) + 1) : SubSeq(s, k, k + Len(sub) - 1) = sub})

\* sub * n
Repeat(sub, n) == [k \in 1..(Len(sub) * n) |-> sub[((k - 1) % Len(sub)) + 1]]

\* sub in s
Contains(s, sub) ==
    \E k \in 1..(Len(s) - Len(sub) + 1) : SubSeq(s, k, k + Len(sub) - 1) = sub

RECURSIVE Flatten(_)
Flatten(seqs) == IF seqs = <<>> THEN <<>> ELSE Head(seqs) \o Flatten(Tail(seqs))

\* sep.join(parts)
Join(sep, parts) ==
    Flatten([k \in 1..Len(parts) |-> IF k = 1 THEN parts[k] ELSE sep \o parts[k]])

(***************************************************************************)
(* Texts.                                                                  *)
(*   obj_conv     {"conversations": [{"speaker": .., "utterance": ..}, ..]}*)
(*   obj_speaker  {"speaker": .., "utterance": ..}                         *)
(*   array        [{"speaker": .., "utterance": ..}, ..]                   *)
(*   obj_other    valid JSON object that keeps its speakers under a key    *)
(*                other than "conversations"                               *)
(*   broken       a "conversations" document cut off before its end:       *)
(*                json.loads raises JSONDecodeError                        *)
(*   plain        label: utterance label: utterance ...                    *)
(*   free         text without speakers                                    *)
(*   nested       a run of "[" deeper than json.loads follows: json.loads  *)
(*                raises RecursionError                                    *)
(*   none, empty, raise:  None, "", and "the call raised"                  *)
(* An item is [speaker, gap, utterance]; gap is the whitespace between a   *)
(* plain label and its colon.                                              *)
(***************************************************************************)
NoneText == [shape |-> "none", items |-> <<>>]
EmptyStr == [shape |-> "empty", items |-> <<>>]
Raised == [shape |-> "raise", items |-> <<>>]

JsonShapes == {"obj_conv", "obj_speaker", "array", "obj_other"}
KeyedShapes == JsonShapes \cup {"broken"}     \* "speaker"/"utterance" keys occur

JsonItem(it) ==
    <<"{\"speaker\": \"">> \o it.speaker \o <<"\", \"utterance\": \"">>
        \o it.utterance \o <<"\"}">>

PlainItem(it) == it.speaker \o it.gap \o <<":", " ">> \o it.utterance

\* The str a text stands for.
Chars(text) ==
    LET js == Join(<<", ">>, [k \in 1..Len(text.items) |-> JsonItem(text.items[k])])
    IN CASE text.shape = "obj_conv" -> <<"{\"conversations\": [">> \o js \o <<"]}">>
         [] text.shape = "obj_other" -> <<"{\"minutes\": [">> \o js \o <<"]}">>
         [] text.shape = "broken" -> <<"{\"conversations\": [">> \o js
         [] text.shape = "array" -> <<"[">> \o js \o <<"]">>
         [] text.shape = "obj_speaker" -> js
         [] text.shape = "plain" ->
                Join(<<" ">>, [k \in 1..Len(text.items) |-> PlainItem(text.items[k])])
         [] text.shape \in {"free", "nested"} ->
                Flatten([k \in 1..Len(text.items) |-> text.items[k].utterance])
         [] OTHER -> <<>>

\* The speaker labels of a text.
Labels(text) == {text.items[k].speaker : k \in 1..Len(text.items)} \ {<<>>}

Item(label, gap, utterance) == [speaker |-> label, gap |-> gap, utterance |-> utterance]

(***************************************************************************)
(* Line 274: re.sub(r'\s+', ' ', segment_text_raw).strip(), or "" for an   *)
(* empty response.  Inside a keyed document the utterances keep a single   *)
(* space where they had whitespace; in plain and free text the whitespace  *)
(* next to a separator merges with it and the ends are stripped.           *)
(***************************************************************************)
NormalizeItem(shape, it) ==
    IF shape \in KeyedShapes
    THEN [it EXCEPT !.utterance = CollapseWs(@)]
    ELSE [it EXCEPT !.gap = CollapseWs(@),
                    !.utterance = LStrip(RStrip(CollapseWs(@)))]

NormalizeWhitespace(raw) ==
    LET t == [raw EXCEPT !.items = [k \in 1..Len(@) |-> NormalizeItem(raw.shape, @[k])]]
    IN IF Chars(t) = <<>> THEN EmptyStr ELSE t

\* "not segment_text": None or ""
IsFalsy(text) == Chars(text) = <<>>

(***************************************************************************)
(* add_speaker_identifier (lines 16-64)                                    *)
(***************************************************************************)
\* f"{speaker}_{identifier}"
Suffixed(label, identifier) == label \o << "_" \o identifier >>

\* Lines 56-58: a label is rewritten when it ends in one of
\*   washa\d+   supi-ka-\d+   Speaker\s*\d+
\* and is followed by optional whitespace and an ASCII colon.
MatchesSpeakerPattern(label) ==
    \E k \in 1..Len(label) :
        /\ label[k] \in {Washa, Supika, "Speaker"}
        /\ \E d \in (k+1)..Len(label) :
              /\ \A j \in d..Len(label) : label[j] \in Digits
              /\ \A j \in (k+1)..(d-1) : label[k] = "Speaker" /\ label[j] \in WhiteSpace

\* Lines 34-47: json.loads succeeded.  The "speaker" of the object itself,
\* of every object of its "conversations" list, or of every object of the
\* array receives the identifier; any other document is left as parsed.
TagJson(text, identifier) ==
    IF text.shape \in {"obj_conv", "obj_speaker", "array"}
    THEN [text EXCEPT !.items =
            [k \in 1..Len(@) |-> [@[k] EXCEPT !.speaker = Suffixed(@, identifier)]]]
    ELSE text

\* Lines 56-58: re.sub on plain text.
TagPlainItem(it, identifier) ==
    IF MatchesSpeakerPattern(it.speaker)
    THEN [it EXCEPT !.speaker = Suffixed(@, identifier), !.gap = <<>>]
    ELSE it

\* Lines 61-62: re.sub(r'"speaker"\s*:\s*"([^"]*)"', ...) on text that holds
\* the key but did not parse.
TagKeyedItem(it, identifier) == [it EXCEPT !.speaker = Suffixed(@, identifier)]

TagByRegex(text, identifier) ==
    CASE text.shape = "plain" ->
            [text EXCEPT !.items = [k \in 1..Len(@) |-> TagPlainItem(@[k], identifier)]]
      [] text.shape = "broken" ->
            [text EXCEPT !.items = [k \in 1..Len(@) |-> TagKeyedItem(@[k], identifier)]]
      [] OTHER -> text

\* Lines 28-52: json.loads is tried on a text that starts with "{" or "[";
\* only JSONDecodeError and AttributeError are caught, any other exception
\* leaves the function
TagRaises(text) == text.shape = "nested"

add_speaker_identifier(text, identifier) ==
    IF text.shape \in JsonShapes
    THEN TagJson(text, identifier)
    ELSE TagByRegex(text, identifier)

\* f"seg{i}" (line 307)
segment_identifier(n) == "seg" \o ToString(n)

(***************************************************************************)
(* is_problematic_transcription and its helpers (lines 387-483)            *)
(***************************************************************************)
\* Line 409: re.findall(r'"utterance"\s*:\s*"((?:[^"\\]|\\.)*)(?:"|$)', text)
utterance_patterns(text) ==
    IF text.shape \in KeyedShapes
    THEN [k \in 1..Len(text.items) |-> text.items[k].utterance]
    ELSE <<>>

WordRepeated_off(count) == count > WordRepeatLimit

\* Line 447
WordRepeated(count) == count >= WordRepeatLimit

\* Lines 429-459
check_single_utterance_repetition(utterance) ==
    LET words == Split(utterance)
    IN \/ \E k \in 1..Len(words) :
            /\ Len(words[k]) > 1
            /\ WordRepeated(ListCount(words, words[k]))
       \/ \E p \in 1..Len(problem_phrases) :
            StrCount(utterance, problem_phrases[p]) >= PhraseRepeatLimit

\* Lines 461-483
check_whole_text_repetition(text) ==
    LET s == Chars(text)
    IN \E p \in 1..Len(problem_phrases) :
          \/ /\ Len(s) >= Len(problem_phrases[p]) * PhraseRepeatLimit
             /\ Contains(s, Repeat(problem_phrases[p], PhraseRepeatLimit))
          \/ StrCount(s, problem_phrases[p]) >= WholeTextPhraseLimit

\* Lines 387-427
is_problematic_transcription(text) ==
    IF IsFalsy(text) THEN FALSE
    ELSE \/ \E k \in 1..Len(Chars(text)) : Chars(text)[k] = Marker
         \/ \E k \in 1..Len(utterance_patterns(text)) :
                check_single_utterance_repetition(utterance_patterns(text)[k])
         \/ check_whole_text_repetition(text)

(***************************************************************************)
(* Lines 335-337: the merged text.                                         *)
(***************************************************************************)
\* Line 337: whitespace between two Japanese characters is removed.  The
\* argument is the result of line 336, in which whitespace stands alone.
RemoveJapaneseSpaces(s) ==
    LET keep == SelectSeq(Indices(s),
                    LAMBDA k : ~ /\ s[k] \in WhiteSpace
                                 /\ k > 1 /\ k < Len(s)
                                 /\ s[k-1] \in JapanesePieces
                                 /\ s[k+1] \in JapanesePieces)
    IN [k \in 1..Len(keep) |-> s[keep[k]]]

\* Line 335: "".join(seg["text"] for seg in all_transcriptions)
CombinedText(list) == Flatten([k \in 1..Len(list) |-> Chars(list[k].text)])

FormatText(list) ==
    RemoveJapaneseSpaces(LStrip(RStrip(CollapseWs(CombinedText(list)))))

(***************************************************************************)
(* What the transcription call returns in the model (response.text of      *)
(* new_gemini_api.py:379; an empty response raises there).                 *)
(***************************************************************************)
Hi == <<"h", "i">>
Ab == <<"a", "b">>

T_conv == [shape |-> "obj_conv", items |-> << Item(<<"A">>, <<>>, Hi) >>]
T_plain ==
    [shape |-> "plain",
     items |-> << Item(<<Tanaka>>, <<>>, <<c_a, "\n", " ", c_i, "\n">>) >>]
T_marker == [shape |-> "free", items |-> << Item(<<>>, <<>>, <<Marker>>) >>]
T_blank == [shape |-> "free", items |-> << Item(<<>>, <<>>, <<" ", "\n">>) >>]
T_nested == [shape |-> "nested", items |-> << Item(<<>>, <<>>, <<"[", "[">>) >>]

Responses == {T_conv, T_plain, T_marker, T_blank, T_nested}

(***************************************************************************)
(* The inner loop of _process_with_gemini (lines 269-300).                 *)
(***************************************************************************)
InRange_long(att) == att < max_retries + 2

\* Line 269: for attempt in range(max_retries + 1)
InRange(att) == att < max_retries + 1

\* Lines 283 and 295: if attempt < max_retries
RetryLeft(att) == att < max_retries

\* Whether the loop runs another attempt: "continue" of line 285 after a
\* defective text, the end of the except clause after a raised call; "break"
\* of line 292 otherwise.
LoopContinues(att, raised, defective) ==
    \/ defective /\ RetryLeft(att) /\ InRange(att + 1)
    \/ raised /\ InRange(att + 1)

ExhaustedFlag_hard(flag, att, raised, defective) ==
    flag \/ (raised /\ ~(att < max_retries))

ExhaustedFlag_soft(flag, att, raised, defective) ==
    flag \/ (defective /\ ~(att < max_retries))

\* Lines 288 and 299: self.has_reached_max_retries = True
ExhaustedFlag(flag, att, raised, defective) ==
    flag \/ ((defective \/ raised) /\ ~RetryLeft(att))

FirstAttempt_carried(att) == att

\* Line 269: the range of attempts starts anew for every segment
FirstAttempt(att) == 0

TextAfter_keep(old, text, att, raised) == IF raised THEN old ELSE text

\* segment_text after the attempt: the normalized text of line 274, the
\* value it had when the call raised, "" of line 300 on the last attempt.
TextAfter(old, text, att, raised) ==
    IF raised THEN (IF RetryLeft(att) THEN old ELSE EmptyStr) ELSE text

AppendSegment_front(list, entry) == <<entry>> \o list

AppendSegment_renumbered(list, entry) ==
    Append(list, [entry EXCEPT !.segment = Len(list) + 1])

\* Line 317: all_transcriptions.append(segment_result)
AppendSegment(list, entry) == Append(list, entry)

ResetFlag_keep(flag) == flag

\* Line 207: self.has_reached_max_retries = False
ResetFlag(flag) == FALSE

(***************************************************************************)
(* State machine.                                                          *)
(***************************************************************************)
NoArtifact == [total_segments |-> 0, segments |-> <<>>]
NoResult == [status |-> "none", formatted_text |-> <<>>, warning |-> FALSE]
ErrorResult == [status |-> "error", formatted_text |-> <<>>, warning |-> FALSE]
NoCall == [fn |-> "none"]
NoFfmpeg == [found |-> FALSE, duration |-> 0, invoked |-> FALSE, exit |-> 0]
\* results: whether 'transcription' is set, whether the function has
\* returned, and results["success"] once it has; formatted_file is
\* transcription_result["formatted_file"], speaker_remap the kind of entry
\* under results["speaker_remap"], csv_input the file handed to
\* convert_to_csv and generate_minutes
NoResults ==
    [transcription |-> FALSE, returned |-> FALSE, success |-> FALSE,
     formatted_file |-> "none", speaker_remap |-> "none", csv_input |-> "none"]
FailedResults == [NoResults EXCEPT !.returned = TRUE]

InitRun ==
    /\ pc = "idle"
    /\ has_reached_max_retries = FALSE          \* line 98
    /\ split_files = 0
    /\ i = 0
    /\ attempt = 0
    /\ segment_text = NoneText
    /\ all_transcriptions = <<>>
    /\ complete_result = NoArtifact
    /\ formatted_text = <<>>
    /\ files = {}
    /\ result = NoResult
    /\ error = "none"
    /\ attempts = <<>>
    /\ returned = <<>>
    /\ ffmpeg = NoFfmpeg
    /\ results = NoResults

(***************************************************************************)
(* split_media_fixed_duration (src/src/utils/ffmpeg_handler.py 244-359).   *)
(* env is what the function meets: whether get_ffmpeg_path finds the tool, *)
(* the duration get_media_duration probes (-1 when the probe fails) and    *)
(* the exit code of the cutting tool.                                      *)
(***************************************************************************)
ProbedDurations == {-1, 0, 600}
SplitEnvs == [found : BOOLEAN, duration : ProbedDurations, exit : {0, 1}]

\* Line 282
DurationUnknown_negative(duration) == duration < 0
DurationUnknown(duration) == duration <= 0

\* The exception that ends the function, or "none"
SplitRaises(env) ==
    IF ~env.found THEN "no_ffmpeg"                       \* lines 259-261
    ELSE IF DurationUnknown(env.duration) THEN "probe"   \* lines 281-284
    ELSE IF env.exit # 0 THEN "ffmpeg_exit"              \* lines 322, 351-355
    ELSE "none"

\* subprocess.run of line 322 is reached
SplitInvokes(env) == env.found /\ ~DurationUnknown(env.duration)

FfmpegOf(env) ==
    [found |-> env.found, duration |-> env.duration,
     invoked |-> SplitInvokes(env), exit |-> IF SplitInvokes(env) THEN env.exit ELSE 0]

Init ==
    /\ InitRun
    /\ call = NoCall
    /\ ret = NoCall

\* The call of process_audio and the flag the instance holds on entry
\* (line 199)
EntryOf(flag) == [fn |-> "process_audio", flag_before |-> flag]

\* process_audio up to the split (lines 199-258): the flag is reset, the
\* segment directory is made and the media file is cut into n segments.
process_audio_split(env, n) ==
    /\ pc \in {"idle", "done", "failed"}
    /\ SplitRaises(env) = "none"
    /\ ffmpeg' = FfmpegOf(env)
    /\ results' = NoResults
    /\ has_reached_max_retries' = ResetFlag(has_reached_max_retries)
    /\ files' = {"segments_dir"}
    /\ split_files' = n
    /\ i' = 1
    /\ attempt' = 0
    /\ segment_text' = NoneText
    /\ all_transcriptions' = <<>>
    /\ complete_result' = NoArtifact
    /\ formatted_text' = <<>>
    /\ result' = NoResult
    /\ error' = "none"
    /\ attempts' = [s \in 1..n |-> <<>>]
    /\ returned' = [s \in 1..n |-> NoneText]
    /\ pc' = "transcribe"
    /\ call' = EntryOf(has_reached_max_retries)
    /\ UNCHANGED ret

\* process_audio when split_media_fixed_duration raises (lines 253, 377-379,
\* 228-230), and process_audio_file, which catches the error and reports
\* the failure (processor.py lines 158-163).
process_audio_split_raises(env) ==
    /\ pc \in {"idle", "done", "failed"}
    /\ SplitRaises(env) # "none"
    /\ ffmpeg' = FfmpegOf(env)
    /\ results' = FailedResults
    /\ has_reached_max_retries' = ResetFlag(has_reached_max_retries)
    /\ files' = {"segments_dir"}
    /\ split_files' = 0
    /\ i' = 0
    /\ attempt' = 0
    /\ segment_text' = NoneText
    /\ all_transcriptions' = <<>>
    /\ complete_result' = NoArtifact
    /\ formatted_text' = <<>>
    /\ result' = ErrorResult
    /\ error' = SplitRaises(env)
    /\ attempts' = <<>>
    /\ returned' = <<>>
    /\ pc' = "failed"
    /\ call' = EntryOf(has_reached_max_retries)
    /\ UNCHANGED ret

OutcomeKind(text, raised, defective) ==
    IF raised THEN "fail"
    ELSE IF defective THEN "defective"
    ELSE IF IsFalsy(text) THEN "empty" ELSE "ok"

\* One attempt for segment i (lines 269-300) and, when the inner loop ends
\* with it, the rest of the outer loop's body (lines 302-318).  An
\* exception of add_speaker_identifier (line 308) is outside the try of the
\* inner loop: it ends the run (lines 377-379, 228-230).
transcribe_attempt(response) ==
    /\ pc = "transcribe"
    /\ LET raised == response = Raised
           text == IF raised THEN segment_text ELSE NormalizeWhitespace(response)
           defective == ~raised /\ ~IsFalsy(text) /\ is_problematic_transcription(text)
           final == TextAfter(segment_text, text, attempt, raised)
           entry == [segment |-> i,
                     text |-> add_speaker_identifier(final, segment_identifier(i))]
       IN /\ attempts' = [attempts EXCEPT ![i] =
                              Append(@, OutcomeKind(text, raised, defective))]
          /\ returned' = [returned EXCEPT ![i] = IF raised THEN Raised ELSE text]
          /\ has_reached_max_retries' =
                 ExhaustedFlag(has_reached_max_retries, attempt, raised, defective)
          /\ IF LoopContinues(attempt, raised, defective)
             THEN /\ attempt' = attempt + 1
                  /\ segment_text' = final
                  /\ UNCHANGED << i, all_transcriptions, pc, result, error, results >>
             ELSE IF ~IsFalsy(final) /\ TagRaises(final)
             THEN /\ pc' = "failed"
                  /\ error' = "tagging"
                  /\ result' = ErrorResult
                  /\ results' = FailedResults
                  /\ segment_text' = final
                  /\ UNCHANGED << i, attempt, all_transcriptions >>
             ELSE /\ all_transcriptions' =
                        IF IsFalsy(final) THEN all_transcriptions        \* lines 302-304
                        ELSE AppendSegment(all_transcriptions, entry)
                  /\ i' = i + 1
                  /\ attempt' = FirstAttempt(attempt)
                  /\ segment_text' = NoneText
                  /\ pc' = IF i < split_files THEN "transcribe" ELSE "save_json"
                  /\ UNCHANGED << result, error, results >>
    /\ UNCHANGED << split_files, complete_result, formatted_text, files,
                    ffmpeg, call, ret >>

\* Lines 320-332: the intermediate artifact is written.
save_intermediate(written) ==
    /\ pc = "save_json"
    /\ IF written
       THEN /\ complete_result' = [total_segments |-> split_files,
                                   segments |-> all_transcriptions]
            /\ files' = files \cup {"complete_json"}
            /\ pc' = "save_summary"
            /\ UNCHANGED << result, error, results >>
       ELSE /\ pc' = "failed"
            /\ error' = "save_json"
            /\ result' = ErrorResult
            /\ results' = FailedResults
            /\ UNCHANGED << complete_result, files >>
    /\ UNCHANGED << has_reached_max_retries, split_files, i, attempt,
                    segment_text, all_transcriptions, formatted_text, attempts,
                    returned, ffmpeg, call, ret >>

\* Lines 343-348: a failed write of the merged text raises
WriteRaises_logged(written) == FALSE
WriteRaises(written) == ~written

\* Lines 334-348: the merged text is built and written.
save_formatted(written) ==
    /\ pc = "save_summary"
    /\ formatted_text' = FormatText(all_transcriptions)
    /\ IF ~WriteRaises(written)
       THEN /\ files' = files \cup (IF written THEN {"summary_txt"} ELSE {})
            /\ pc' = "finish"
            /\ UNCHANGED << result, error, results >>
       ELSE /\ pc' = "failed"
            /\ error' = "save_summary"
            /\ result' = ErrorResult
            /\ results' = FailedResults
            /\ UNCHANGED files
    /\ UNCHANGED << has_reached_max_retries, split_files, i, attempt,
                    segment_text, all_transcriptions, complete_result, attempts,
                    returned, ffmpeg, call, ret >>

\* Lines 361-366: a failed removal of the segment directory is caught and
\* logged, it does not raise
CleanupRaises_propagates(removed) == ~removed
CleanupRaises(removed) == FALSE

\* Lines 350-375 and 221-226: the raw copy is written, the segment directory
\* removed (either may fail and is only logged), the result returned with
\* the warning when the flag is set.
finish(raw_written, removed) ==
    /\ pc = "finish"
    /\ files' = (files \cup (IF raw_written THEN {"raw_txt"} ELSE {}))
                    \ (IF removed THEN {"segments_dir"} ELSE {})
    /\ IF CleanupRaises(removed)
       THEN /\ pc' = "failed"
            /\ error' = "cleanup"
            /\ result' = ErrorResult
            /\ results' = FailedResults
       ELSE /\ result' = [status |-> "ok", formatted_text |-> formatted_text,
                          warning |-> has_reached_max_retries]
            /\ results' = [results EXCEPT !.transcription = TRUE,  \* processor.py line 77
                                          !.formatted_file = "summary_txt"]
            /\ pc' = "done"
            /\ UNCHANGED error
    /\ UNCHANGED << has_reached_max_retries, split_files, i, attempt,
                    segment_text, all_transcriptions, complete_result,
                    formatted_text, attempts, returned, ffmpeg, call, ret >>

\* processor.py lines 110-113: formatted_file is assigned only when
\* process_transcript returned
FormattedFileAfter_assigned(formatted_file, outcome) == "remapped_txt"
FormattedFileAfter(formatted_file, outcome) ==
    IF outcome = "file_path" THEN "remapped_txt" ELSE formatted_file

\* The entry under results["speaker_remap"] (processor.py lines 114-122)
RemapOutcomes == {"file_path", "skipped", "error"}

\* The speaker remap step of process_audio_file (processor.py lines
\* 100-122): disabled by the configuration, done, or an exception of the
\* remapper caught and recorded.
speaker_remap(outcome) ==
    /\ pc = "done"
    /\ results.transcription
    /\ results.speaker_remap = "none"
    /\ results' = [results EXCEPT
                      !.speaker_remap = outcome,
                      !.formatted_file = FormattedFileAfter(@, outcome)]
    /\ UNCHANGED << pc, has_reached_max_retries, split_files, i, attempt,
                    segment_text, all_transcriptions, complete_result,
                    formatted_text, files, result, error, attempts, returned,
                    ffmpeg, call, ret >>

\* process_audio_file after the remap step (processor.py lines 124-163):
\* the CSV and minutes steps read formatted_file; the later steps either
\* all pass (success) or one of them raises.
process_audio_file_rest(ok) ==
    /\ pc = "done"
    /\ results.speaker_remap # "none"
    /\ ~results.returned
    /\ results' = [results EXCEPT !.returned = TRUE, !.success = ok,
                                  !.csv_input = results.formatted_file]
    /\ UNCHANGED << pc, has_reached_max_retries, split_files, i, attempt,
                    segment_text, all_transcriptions, complete_result,
                    formatted_text, files, result, error, attempts, returned,
                    ffmpeg, call, ret >>

Next ==
    \/ \E env \in SplitEnvs, n \in 1..MaxSegments : process_audio_split(env, n)
    \/ \E env \in SplitEnvs : process_audio_split_raises(env)
    \/ \E response \in Responses \cup {Raised} : transcribe_attempt(response)
    \/ \E written \in BOOLEAN : save_intermediate(written)
    \/ \E written \in BOOLEAN : save_formatted(written)
    \/ \E raw_written \in BOOLEAN, removed \in BOOLEAN : finish(raw_written, removed)
    \/ \E outcome \in RemapOutcomes : speaker_remap(outcome)
    \/ \E ok \in BOOLEAN : process_audio_file_rest(ok)

Spec == Init /\ [][Next]_vars

(***************************************************************************)
(* Properties of the transcription run.                                    *)
(***************************************************************************)
Range(seq) == {seq[k] : k \in 1..Len(seq)}
Last(seq) == seq[Len(seq)]
Segments == DOMAIN attempts
AfterLoop == pc \in {"save_json", "save_summary", "finish", "done"}
AllOf(s, kind) == Len(attempts[s]) = max_retries + 1 /\ Range(attempts[s]) = {kind}
\* the loop has left segment s
Finished(s) == Len(attempts[s]) > 0 /\ i > s
EntriesOf(list, s) == {k \in 1..Len(list) : list[k].segment = s}
Tagged(s) == add_speaker_identifier(returned[s], segment_identifier(s))
\* segments whose loop ended with a text that is not empty
Kept == {s \in Segments : Finished(s) /\ Last(attempts[s]) \in {"ok", "defective"}}
\* a run past the split fails in tagging a text or in writing a file, not
\* because a segment used up its attempts
NotAbortedByTranscription ==
    pc = "failed" => error \in {"tagging", "save_json", "save_summary"}

\* C1: for every segment and every sequence of outcomes of the call, at most
\* max_retries + 1 = 3 calls are made; defective texts and raised calls are
\* counted by the one attempt counter of the segment.
C1_CallsBounded ==
    /\ \A s \in Segments : Len(attempts[s]) <= max_retries + 1
    /\ pc = "transcribe" =>
          /\ attempt <= max_retries
          /\ Len(attempts[i]) = attempt
          /\ Range(attempts[i]) \subseteq {"defective", "fail"}

C1_Witness ==
    \E s \in Segments :
        /\ Len(attempts[s]) = max_retries + 1
        /\ {"defective", "fail"} \subseteq Range(attempts[s])

\* C2: a segment all of whose attempts return a defective text gets exactly
\* max_retries = 2 retries after the first attempt; the text of the last
\* attempt is kept and aggregated, the flag is set, the run is not aborted.
C2_AllDefectiveKept ==
    \A s \in Segments :
        (Finished(s) /\ Range(attempts[s]) = {"defective"}) =>
            /\ Len(attempts[s]) = max_retries + 1
            /\ \E k \in 1..Len(all_transcriptions) :
                  /\ all_transcriptions[k].segment = s
                  /\ all_transcriptions[k].text = Tagged(s)
            /\ has_reached_max_retries
            /\ NotAbortedByTranscription

C2_Witness ==
    \E s \in Segments :
        /\ AllOf(s, "defective")
        /\ pc = "done"
        /\ result.warning
        /\ Contains(result.formatted_text, <<Marker>>)

\* C3: a segment all of whose attempts raise ends with empty text, is left
\* out of the aggregate and sets the flag; the loop goes on with the next
\* segment and the run completes and returns a result.
C3_AllFailedDropped ==
    \A s \in Segments :
        AllOf(s, "fail") =>
            /\ i > s
            /\ EntriesOf(all_transcriptions, s) = {}
            /\ has_reached_max_retries
            /\ NotAbortedByTranscription
            /\ pc = "done" => (result.status = "ok" /\ result.warning)

C3_Witness ==
    \E s \in Segments :
        /\ AllOf(s, "fail")
        /\ s < split_files
        /\ EntriesOf(all_transcriptions, s + 1) # {}
        /\ pc = "done"
        /\ result.status = "ok"

\* C4 (as claimed): after the N segments have been processed the segments
\* list of the intermediate artifact holds N entries with indices 1..N.
C4_OneEntryPerSegment ==
    "complete_json" \in files =>
        /\ Len(complete_result.segments) = complete_result.total_segments
        /\ \A k \in 1..Len(complete_result.segments) :
              complete_result.segments[k].segment = k

\* C4 (amended): the segments list holds exactly one entry for every segment
\* that ended with a text that is not empty, and none for a segment that
\* ended empty; the entries are in ascending segment order and the artifact
\* records the number N of input segments.
C4_OneEntryPerKeptSegment ==
    /\ \A s \in Segments :
          Cardinality(EntriesOf(all_transcriptions, s)) = (IF s \in Kept THEN 1 ELSE 0)
    /\ \A j, k \in 1..Len(all_transcriptions) :
          j < k => all_transcriptions[j].segment < all_transcriptions[k].segment
    /\ \A k \in 1..Len(all_transcriptions) : all_transcriptions[k].segment \in Segments
    /\ "complete_json" \in files =>
          /\ complete_result.segments = all_transcriptions
          /\ complete_result.total_segments = split_files
          /\ Cardinality(Kept) = Len(complete_result.segments)

C4_Witness ==
    /\ "complete_json" \in files
    /\ complete_result.total_segments = MaxSegments
    /\ Len(complete_result.segments) = MaxSegments - 1
    /\ complete_result.segments[1].segment = MaxSegments

\* C5: the result of a completed run carries the warning if and only if in
\* that run some segment used its last attempt (attempt max_retries + 1) and
\* that attempt was defective or raised.
C5_WarningIffExhausted ==
    pc = "done" =>
        (result.warning <=>
            \E s \in Segments :
                /\ Len(attempts[s]) = max_retries + 1
                /\ Last(attempts[s]) \in {"defective", "fail"})

C5_Witness ==
    /\ pc = "done"
    /\ result.warning
    /\ \E s \in Segments : Len(attempts[s]) = max_retries + 1 /\ Last(attempts[s]) = "ok"
    /\ \E s \in Segments : Len(attempts[s]) = max_retries + 1 /\ Last(attempts[s]) = "fail"

\* The texts of the kept segments, concatenated in ascending segment order.
KeptTextsInOrder ==
    Flatten([s \in 1..split_files |-> IF s \in Kept THEN Chars(Tagged(s)) ELSE <<>>])

\* C6 (as claimed): the merged transcript is the concatenation of the texts
\* of the included segments in ascending segment order, each exactly once.
C6_MergedIsConcatenation ==
    "summary_txt" \in files => formatted_text = KeptTextsInOrder

\* C6 (amended): the merged transcript is that concatenation after the final
\* whitespace clean-up of lines 336-337 (runs of whitespace become one space,
\* the ends are stripped, spaces between two Japanese characters are
\* removed); apart from whitespace it is the concatenation itself.
C6_MergedIsCleanedConcatenation ==
    "summary_txt" \in files =>
        /\ formatted_text =
              RemoveJapaneseSpaces(LStrip(RStrip(CollapseWs(KeptTextsInOrder))))
        /\ SelectSeq(formatted_text, LAMBDA c : c \notin WhiteSpace)
              = SelectSeq(KeptTextsInOrder, LAMBDA c : c \notin WhiteSpace)
        /\ pc = "done" => result.formatted_text = formatted_text

C6_Witness ==
    /\ pc = "done"
    /\ Cardinality(Kept) = 2
    /\ all_transcriptions[1].text # all_transcriptions[2].text
    /\ result.formatted_text # KeptTextsInOrder

\* C7: after tagging, the label sets of two different segments of a run
\* are disjoint, whatever shape the call returned.
C7_LabelsDisjoint ==
    \A j, k \in 1..Len(all_transcriptions) :
        j # k => Labels(all_transcriptions[j].text)
                    \cap Labels(all_transcriptions[k].text) = {}

(***************************************************************************)
(* add_speaker_identifier as a function: line 308 applied to one text.     *)
(***************************************************************************)
SeqsUpTo(S, n) == UNION {[1..m -> S] : m \in 1..n}

TagLabels ==
    { <<"A">>, <<"B">>, <<Washa, "1">>, <<Supika, "2">>, <<"Speaker", " ", "1">>,
      <<Tanaka>>, <<Washa, "1", "_seg1">> }

KeyedItems == {Item(l, <<>>, Hi) : l \in TagLabels}
PlainItems == {Item(l, g, Hi) : l \in TagLabels, g \in {<<>>, <<" ">>}}

TagTexts ==
    {[shape |-> sh, items |-> its] :
        sh \in {"obj_conv", "array", "obj_other", "broken"}, its \in SeqsUpTo(KeyedItems, MaxItems)}
    \cup {[shape |-> "obj_speaker", items |-> <<it>>] : it \in KeyedItems}
    \cup {[shape |-> "plain", items |-> its] : its \in SeqsUpTo(PlainItems, MaxItems)}
    \cup {[shape |-> "free", items |-> << Item(<<>>, <<>>, Hi) >>]}

InitTag ==
    /\ InitRun
    /\ ret = NoCall
    /\ call \in {[fn |-> "add_speaker_identifier", text |-> t, segment |-> n] :
                    t \in TagTexts, n \in 1..MaxSegments}

\* Lines 307-308
tag_segment ==
    /\ call.fn = "add_speaker_identifier"
    /\ ret = NoCall
    /\ ret' = [fn |-> "add_speaker_identifier",
               value |-> add_speaker_identifier(call.text, segment_identifier(call.segment))]
    /\ UNCHANGED runVars
    /\ UNCHANGED call

NextTag == tag_segment

SpecTag == InitTag /\ [][NextTag]_vars

TagDone == ret.fn = "add_speaker_identifier"
\* what was appended to a label
SuffixOf(before, after) == SubSeq(after, Len(before) + 1, Len(after))

\* C8: within one segment the tagging is injective on speaker labels: two
\* different original labels never become the same tagged label, and every
\* occurrence of one original label receives the same suffix.
C8_TaggingInjective ==
    TagDone =>
        \A j, k \in 1..Len(call.text.items) :
            LET before == call.text.items
                after == ret.value.items
            IN /\ before[j].speaker # before[k].speaker
                    => after[j].speaker # after[k].speaker
               /\ before[j].speaker = before[k].speaker
                    => SuffixOf(before[j].speaker, after[j].speaker)
                         = SuffixOf(before[k].speaker, after[k].speaker)

\* C9: every speaker label L of segment n becomes L_seg<n>, once per
\* occurrence, in an object with "speaker", an object with "conversations",
\* an array of objects, and in colon-delimited plain text.
C9_EveryLabelSuffixed ==
    (TagDone /\ call.text.shape \in {"obj_speaker", "obj_conv", "array", "plain"}) =>
        \A k \in 1..Len(call.text.items) :
            ret.value.items[k].speaker
                = call.text.items[k].speaker \o << "_seg" \o ToString(call.segment) >>

(***************************************************************************)
(* is_problematic_transcription as a function: a document whose single     *)
(* utterance is one token repeated, separated by spaces.                   *)
(***************************************************************************)
DefectTokens ==
    { Ab, <<"a", "b", "c">>, <<"x">>, <<c_u, c_n, c_maru>>, <<c_ha, c_i, c_maru>>,
      <<"a", c_u, c_n, c_maru>>, <<c_e, c_cho>> }

RepeatCounts ==
    {1, PhraseRepeatLimit - 1, PhraseRepeatLimit, WordRepeatLimit - 1,
     WordRepeatLimit, WordRepeatLimit + 1}

\* " ".join([token] * count)
RepeatedToken(token, count) ==
    [k \in 1..(count * (Len(token) + 1) - 1) |->
        IF k % (Len(token) + 1) = 0 THEN " " ELSE token[k % (Len(token) + 1)]]

InitDefect ==
    /\ InitRun
    /\ ret = NoCall
    /\ call \in {[fn |-> "is_problematic_transcription", token |-> tk, count |-> n,
                  text |-> [shape |-> sh,
                            items |-> << Item(<<"A">>, <<>>, RepeatedToken(tk, n)) >>]] :
                    tk \in DefectTokens, n \in RepeatCounts,
                    sh \in {"obj_conv", "obj_speaker", "array", "broken"}}

\* Line 281
check_text ==
    /\ call.fn = "is_problematic_transcription"
    /\ ret = NoCall
    /\ ret' = [fn |-> "is_problematic_transcription",
               value |-> is_problematic_transcription(NormalizeWhitespace(call.text))]
    /\ UNCHANGED runVars
    /\ UNCHANGED call

NextDefect == check_text

SpecDefect == InitDefect /\ [][NextDefect]_vars

DefectDone == ret.fn = "is_problematic_transcription"
HasFiller(token) ==
    \E p \in 1..Len(problem_phrases) : Contains(token, problem_phrases[p])

\* C10 (as claimed): for every token of 2 or more characters, the token
\* repeated 80 times in the single utterance is defective and the token
\* repeated 79 times is not.
C10_BoundaryAt80 ==
    (DefectDone /\ Len(call.token) >= 2) =>
        /\ call.count = WordRepeatLimit => ret.value
        /\ call.count = WordRepeatLimit - 1 => ~ret.value

\* C10 (amended): for every token of 2 or more characters, the token
\* repeated 80 times is defective; repeated 79 times it is not defective
\* when it contains none of the filler phrases, and defective when it
\* contains one (79 occurrences of the phrase exceed the limit of 70).
C10_BoundaryAt80UnlessFiller ==
    (DefectDone /\ Len(call.token) >= 2) =>
        /\ call.count = WordRepeatLimit => ret.value
        /\ call.count = WordRepeatLimit - 1 => (ret.value <=> HasFiller(call.token))

C10_Witness ==
    /\ DefectDone
    /\ call.token = Ab
    /\ call.count = WordRepeatLimit
    /\ ret.value

(***************************************************************************)
(* AudioSplitter (src/src/modules/audio_splitter.py).                      *)
(*                                                                         *)
(* An audio is [len, loud, gaps]: len milliseconds of samples of the       *)
(* amplitude loud, except in the gaps (a sequence of <<from, to>> in ms,   *)
(* ascending, disjoint) where the samples are 0.  pydub addresses audio by *)
(* the millisecond; AudioSegment.rms is the integer part of the root of    *)
(* the mean square of the samples, and detect_silence(seek_step = 1)       *)
(* compares the rms of every window of min_silence_len ms with             *)
(* db_to_float(silence_thresh) * max_possible_amplitude.                   *)
(***************************************************************************)
MaxGaps == 1

min_silence_len == 500
margin_ms == 10000
window_size == 100
thresholds == << -40, -35, -30, -25 >>

Min2(a, b) == IF a <= b THEN a ELSE b
Max2(a, b) == IF a >= b THEN a ELSE b
Abs(x) == IF x >= 0 THEN x ELSE -x

\* int(math.sqrt(n)), by bisection over lo..hi (lo * lo <= n < (hi + 1)^2)
RECURSIVE IsqrtBetween(_, _, _)
IsqrtBetween(n, lo, hi) ==
    IF lo = hi THEN lo
    ELSE LET mid == (lo + hi + 1) \div 2
         IN  IF mid * mid <= n THEN IsqrtBetween(n, mid, hi)
             ELSE IsqrtBetween(n, lo, mid - 1)

\* db_to_float(thresh) * 32768 for the four thresholds of line 149; an rms
\* is an integer, so rms <= 327.68 is rms <= 327
SilenceThreshold(thresh) ==
    CASE thresh = -40 -> 327
      [] thresh = -35 -> 582
      [] thresh = -30 -> 1036
      [] thresh = -25 -> 1842

\* milliseconds of [from, to) that lie in a gap of the audio
RECURSIVE SilentMs(_, _, _)
SilentMs(gaps, from, to) ==
    IF gaps = <<>> THEN 0
    ELSE Max2(0, Min2(gaps[1][2], to) - Max2(gaps[1][1], from))
         + SilentMs(Tail(gaps), from, to)

\* The mean square of to - from samples of which loud_ms are loud * loud
\* and the others 0, rounded down (the quotient is split so that no
\* intermediate product leaves the 32-bit range)
MeanSquare(loud, loud_ms, n) ==
    ((loud * loud) \div n) * loud_ms + (((loud * loud) % n) * loud_ms) \div n

\* audio[from:to].rms
Rms(audio, from, to) ==
    IF to <= from THEN 0
    ELSE LET loud_ms == (to - from) - SilentMs(audio.gaps, from, to)
         IN  IsqrtBetween(MeanSquare(audio.loud, loud_ms, to - from), 0, audio.loud)

\* detect_silence(audio[from:to], min_silence_len, thresh): the starts of
\* the silent windows, relative to from
SilentStarts(audio, from, to, thresh) ==
    { s \in 0..((to - from) - min_silence_len) :
        Rms(audio, from + s, from + s + min_silence_len) <= SilenceThreshold(thresh) }

\* ... merged into ranges: a start opens a new range when the previous
\* silent start lies more than min_silence_len before it; a range ends
\* min_silence_len after its last start.  The result is in ascending order.
RECURSIVE RangesFrom(_, _)
RangesFrom(starts, opens) ==
    IF opens = {} THEN <<>>
    ELSE LET first == CHOOSE s \in opens : \A t \in opens : s <= t
             later == opens \ {first}
             mine  == IF later = {} THEN {s \in starts : s >= first}
                      ELSE {s \in starts : s >= first /\ \A t \in later : s < t}
             last  == CHOOSE s \in mine : \A t \in mine : t <= s
         IN  << <<first, last + min_silence_len>> >> \o RangesFrom(starts, later)

detect_silence(audio, from, to, thresh) ==
    LET starts == SilentStarts(audio, from, to, thresh)
        opens  == { s \in starts :
                      \A t \in Max2(0, s - min_silence_len)..(s - 1) : t \notin starts }
    IN  RangesFrom(starts, opens)

\* Lines 149-153: the ranges of the first threshold that finds any
RECURSIVE FirstSilence(_, _, _, _)
FirstSilence(audio, from, to, k) ==
    LET silence_ranges == detect_silence(audio, from, to, thresholds[k])
    IN  IF silence_ranges # <<>> \/ k = Len(thresholds) THEN silence_ranges
        ELSE FirstSilence(audio, from, to, k + 1)

Closer_or_equal(distance, best_distance) == distance <= best_distance

\* Line 197: if distance < best_distance
Closer(distance, best_distance) == distance < best_distance

\* Lines 178-202
RECURSIVE SelectFrom(_, _, _, _)
SelectFrom(silence_ranges, target_position, best_distance, best_position) ==
    IF silence_ranges = <<>> THEN best_position
    ELSE LET mid_position == (silence_ranges[1][1] + silence_ranges[1][2]) \div 2
             distance == Abs(mid_position - target_position)
         IN  IF best_distance < 0 \/ Closer(distance, best_distance)
             THEN SelectFrom(Tail(silence_ranges), target_position, distance, mid_position)
             ELSE SelectFrom(Tail(silence_ranges), target_position,
                             best_distance, best_position)

\* best_distance = float('inf') is written -1
select_best_silence(silence_ranges, target_position) ==
    SelectFrom(silence_ranges, target_position, -1, target_position)

\* i + window_size // 2 of line 231
WindowCentre_start(k) == k * window_size
WindowCentre(k) == k * window_size + window_size \div 2

\* Lines 204-233: the centre of the first window of the least rms
\* (min_position stays 0 when the loop has no window)
find_min_volume_position(audio, from, to) ==
    LET count == IF (to - from) - window_size <= 0 THEN 0
                 ELSE ((to - from) - 1) \div window_size
        volume == [k \in 0..(count - 1) |->
                     Rms(audio, from + k * window_size, from + (k + 1) * window_size)]
    IN  IF count = 0 THEN 0
        ELSE WindowCentre(CHOOSE a \in 0..(count - 1) :
                            /\ \A b \in 0..(count - 1) : volume[a] <= volume[b]
                            /\ \A b \in 0..(a - 1) : volume[b] > volume[a])

\* Lines 141-143
NarrowSplitPoint_start(target_ms, search_start) == search_start
NarrowSplitPoint(target_ms, search_start) == target_ms

\* Lines 116-176: the split point and which of the three returns gave it
find_optimal_split_point(audio, target) ==
    LET target_ms    == Min2(target, audio.len)
        search_start == Max2(0, target_ms - margin_ms)
        search_end   == Min2(audio.len, target_ms + margin_ms)
        silence_ranges == FirstSilence(audio, search_start, search_end, 1)
    IN  IF search_end - search_start < min_silence_len * 2
        THEN [kind |-> "narrow", point |-> NarrowSplitPoint(target_ms, search_start)]
        ELSE IF silence_ranges = <<>>
        THEN [kind |-> "min_volume",
              point |-> search_start
                        + find_min_volume_position(audio, search_start, search_end)]
        ELSE [kind |-> "silence",
              point |-> search_start
                        + select_best_silence(silence_ranges, target_ms - search_start)]

\* Lines 44-46: list(range(0, audio_length_ms, segment_length_ms)), then the
\* end of the audio unless it is already the last point
TheoreticalPoints(audio_length_ms, segment_length_ms) ==
    LET count == (audio_length_ms + segment_length_ms - 1) \div segment_length_ms
        points == [k \in 1..count |-> (k - 1) * segment_length_ms]
    IN  IF points[count] # audio_length_ms THEN Append(points, audio_length_ms)
        ELSE points

\* The audios of the model: four lengths (one shorter than two silence
\* lengths, one longer than the margin), two amplitudes of the sound outside
\* the gaps (1986 is just above the -25 dB threshold, 8000 is far above
\* it), silence gaps shorter and longer than min_silence_len.
AudioLengths == {900, 1500, 3000, 12000}
LoudLevels == {1986, 8000}
GapChoices == { <<300, 900>>, <<980, 1050>>, <<2200, 2800>> }

RECURSIVE GapSeqs(_)
GapSeqs(n) ==
    IF n = 0 THEN { <<>> }
    ELSE GapSeqs(n - 1) \cup
         { Append(g, c) : g \in { h \in GapSeqs(n - 1) : Len(h) = n - 1 },
                          c \in GapChoices }

Ascending(gaps) ==
    \A k \in 1..(Len(gaps) - 1) : gaps[k][2] < gaps[k + 1][1]

SplitAudios ==
    { a \in [len : AudioLengths, loud : LoudLevels, gaps : GapSeqs(MaxGaps)] :
        /\ Ascending(a.gaps)
        /\ \A k \in 1..Len(a.gaps) : a.gaps[k][2] <= a.len }

\* segment_length_seconds * 1000 of line 16 for 1 and 11 seconds; 400 is a
\* target below one second, which reaches _determine_all_split_points only
\* when segment_length_ms is set on the object directly
SegmentLengths == {400, 1000, 11000}

\* plans of at most MaxPoints points are explored
MaxPoints == 9

InitSplit ==
    /\ InitRun
    /\ ret = NoCall
    /\ call \in { c \in [fn : {"split_audio"}, audio : SplitAudios,
                          segment_length_ms : SegmentLengths,
                          theoretical_points : { <<>> }, actual_points : { <<>> },
                          kinds : { <<>> }] :
                    Len(TheoreticalPoints(c.audio.len, c.segment_length_ms)) <= MaxPoints }

\* Lines 38-46 and line 102
theoretical_split_points ==
    /\ call.fn = "split_audio"
    /\ ret = NoCall
    /\ call.theoretical_points = <<>>
    /\ LET points == TheoreticalPoints(call.audio.len, call.segment_length_ms)
       IN  call' = [call EXCEPT !.theoretical_points = points,
                                !.actual_points = << points[1] >>,
                                !.kinds = << "fixed" >>]
    /\ UNCHANGED runVars
    /\ UNCHANGED ret

\* Lines 105-108: one pass of the loop over the interior points
adjust_split_point ==
    /\ call.fn = "split_audio"
    /\ ret = NoCall
    /\ call.theoretical_points # <<>>
    /\ Len(call.actual_points) < Len(call.theoretical_points) - 1
    /\ LET target_ms == call.theoretical_points[Len(call.actual_points) + 1]
           found == find_optimal_split_point(call.audio, target_ms)
       IN  call' = [call EXCEPT !.actual_points = Append(@, found.point),
                                !.kinds = Append(@, found.kind)]
    /\ UNCHANGED runVars
    /\ UNCHANGED ret

\* Lines 111-114: the end of the audio closes the plan
close_split_points ==
    /\ call.fn = "split_audio"
    /\ ret = NoCall
    /\ call.theoretical_points # <<>>
    /\ Len(call.actual_points) >= Len(call.theoretical_points) - 1
    /\ ret' = [fn |-> "split_audio",
               value |-> IF Len(call.theoretical_points) > 1
                         THEN Append(call.actual_points,
                                     call.theoretical_points[Len(call.theoretical_points)])
                         ELSE call.actual_points]
    /\ UNCHANGED runVars
    /\ UNCHANGED call

NextSplit ==
    \/ theoretical_split_points
    \/ adjust_split_point
    \/ close_split_points

SpecSplit == InitSplit /\ [][NextSplit]_vars

SplitDone == ret.fn = "split_audio"

\* C11 (as claimed): for every audio duration and target segment length,
\* the boundaries of the finished plan start at 0, end at the duration, lie
\* in [0, duration] and are strictly increasing.
C11_BoundariesStrictlyIncreasing ==
    SplitDone =>
        /\ ret.value[1] = 0
        /\ ret.value[Len(ret.value)] = call.audio.len
        /\ \A k \in 1..Len(ret.value) :
               ret.value[k] >= 0 /\ ret.value[k] <= call.audio.len
        /\ \A k \in 1..(Len(ret.value) - 1) : ret.value[k] < ret.value[k + 1]

\* C12: every interior boundary differs from its theoretical boundary by at
\* most the margin, and equals it when the search window is narrower than
\* two minimum silence lengths.
C12_WithinMargin ==
    call.fn = "split_audio" =>
        \A k \in 2..Len(call.actual_points) :
            /\ Abs(call.actual_points[k] - call.theoretical_points[k]) <= margin_ms
            /\ call.kinds[k] = "narrow" =>
                   call.actual_points[k] = call.theoretical_points[k]

\* an audio longer than the margin whose only silence lies more than the
\* margin before the target: the boundary is moved, but not to the silence
C12_Witness ==
    /\ SplitDone
    /\ call.audio.len > margin_ms
    /\ call.audio.gaps = << <<300, 900>> >>
    /\ Len(call.actual_points) = 2
    /\ call.theoretical_points[2] - call.audio.gaps[1][2] > margin_ms
    /\ call.kinds[2] = "min_volume"
    /\ call.actual_points[2] # call.theoretical_points[2]

\* the scenario of C13: 1500 ms, target 1000 ms, one gap at 980-1050 ms
C13_Scenario ==
    /\ SplitDone
    /\ call.audio.len = 1500
    /\ call.segment_length_ms = 1000
    /\ call.audio.gaps = << <<980, 1050>> >>

Transcripts == {"complete_json", "summary_txt", "raw_txt"}

\* C14: when the probe gives a duration <= 0 the split raises without
\* invoking the cutting tool; when the cutting tool exits non-zero the split
\* raises; in both cases the run makes no transcription call, writes no
\* transcript and is reported as failed.
C14_SplitFailureAborts ==
    /\ (ffmpeg.found /\ ffmpeg.duration <= 0) =>
           pc = "failed" /\ error = "probe" /\ ~ffmpeg.invoked
    /\ (ffmpeg.invoked /\ ffmpeg.exit # 0) =>
           pc = "failed" /\ error = "ffmpeg_exit"
    /\ (pc = "failed" /\ error \in {"probe", "ffmpeg_exit"}) =>
           /\ attempts = <<>>
           /\ all_transcriptions = <<>>
           /\ files \cap Transcripts = {}
           /\ result.status = "error"
           /\ results.returned /\ ~results.success /\ ~results.transcription

C14_Witness ==
    /\ pc = "failed"
    /\ error = "probe"
    /\ ffmpeg.duration = -1
    /\ ~ffmpeg.invoked
    /\ results.returned /\ ~results.success

(***************************************************************************)
(* SpeakerRemapper (src/src/services/speaker_remapper.py).                 *)
(*                                                                         *)
(* A name is a sequence of pieces.  A transcript is the sequence of its    *)
(* utterances, each [sep, speaker]: the speaker label between the quotes   *)
(* of "speaker": "..." and the spacing around the colon, which the regular *)
(* expression of line 171 accepts in any width and line 172 rewrites to    *)
(* one space.  A mapping is the dict in its insertion order: a sequence of *)
(* [old, new] with distinct old.                                           *)
(***************************************************************************)
MaxUtterances == 2
MaxEntries == 2

c_fu == "u4e0d"
c_mei == "u660e"

A_seg1 == << "A_seg1" >>
A_seg2 == << "A_seg2" >>
B_seg3 == << "B_seg3" >>
Yamada == << "Yamada" >>
UnknownName == << "[", "unknown", "]" >>

\* Line 147
skip_patterns ==
    << << "[", c_fu, c_mei, "]" >>, << "[" >>, << "unknown" >>, << "Unknown" >>,
       << c_fu, c_mei >> >>

\* Line 153: any(pattern in new_name for pattern in skip_patterns)
Skipped_exact(new_name) ==
    \E p \in 1..Len(skip_patterns) : new_name = skip_patterns[p]
Skipped(new_name) ==
    \E p \in 1..Len(skip_patterns) : Contains(new_name, skip_patterns[p])

\* Lines 148-157
filtered_mapping(speaker_mapping) ==
    SelectSeq(speaker_mapping, LAMBDA e : ~Skipped(e.new))

\* Lines 171-178: re.sub of one entry over the whole text
ReplaceOne(text, old_name, new_name) ==
    [k \in 1..Len(text) |->
        IF text[k].speaker = old_name
        THEN [sep |-> ": ", speaker |-> new_name]
        ELSE text[k]]

\* Lines 169-185: the entries are applied one after the other to result_text
RECURSIVE ReplaceAll(_, _)
ReplaceAll(result_text, entries) ==
    IF entries = <<>> THEN result_text
    ELSE ReplaceAll(ReplaceOne(result_text, entries[1].old, entries[1].new),
                    Tail(entries))

\* Lines 130-196
replace_speakers(transcript_text, speaker_mapping) ==
    ReplaceAll(transcript_text, filtered_mapping(speaker_mapping))

\* Lines 181-183, summed at line 188: occurrences of '"speaker": "old"' that
\* are gone after the entry was applied
RECURSIVE CountReplacements(_, _)
CountReplacements(result_text, entries) ==
    IF entries = <<>> THEN 0
    ELSE LET after == ReplaceOne(result_text, entries[1].old, entries[1].new)
             written(text) == Cardinality({ k \in 1..Len(text) :
                                 text[k] = [sep |-> ": ", speaker |-> entries[1].old] })
         IN  (written(result_text) - written(after))
             + CountReplacements(after, Tail(entries))

total_replacements(transcript_text, speaker_mapping) ==
    CountReplacements(transcript_text, filtered_mapping(speaker_mapping))

(***************************************************************************)
(* The response of the text generation is a sequence of tokens:            *)
(*   "prose"        text without braces or fences                          *)
(*   "fence_open"   ```json          "fence_close"   ```                   *)
(*   "lbrace"       prose that holds a {     "rbrace"  prose that holds a }*)
(*   "list"         a JSON array                                           *)
(*   "obj"          the JSON object of the mapping obj                     *)
(* The response of a call that raised has raised = TRUE.                   *)
(***************************************************************************)
EmptyMapping == <<>>
Token(t) == [t |-> t, obj |-> EmptyMapping]
Obj(mapping) == [t |-> "obj", obj |-> mapping]
CallRaised == [raised |-> TRUE, tokens |-> <<>>]
Response(tokens) == [raised |-> FALSE, tokens |-> tokens]

IsObj(token) == token.t = "obj"
HasOpen(token) == token.t \in {"obj", "lbrace"}
HasClose(token) == token.t \in {"obj", "rbrace"}
IsFence(token) == token.t \in {"fence_open", "fence_close"}

SubTokens(response, from, to) ==
    [k \in 1..(to - from + 1) |-> response[from + k - 1]]

First(S) == CHOOSE k \in S : \A j \in S : k <= j
Final(S) == CHOOSE k \in S : \A j \in S : j <= k

\* Lines 218-230: the text handed to json.loads
JsonStr(ai_response) ==
    LET idx    == 1..Len(ai_response)
        opens  == { a \in idx : ai_response[a].t = "fence_open" /\
                       \E b \in idx : b > a /\ IsFence(ai_response[b]) }
        braces == { a \in idx : HasOpen(ai_response[a]) /\
                       \E b \in idx : b >= a /\ HasClose(ai_response[b]) /\
                                      (b = a => IsObj(ai_response[a])) }
    IN  IF opens # {}
        THEN LET a == First(opens)
                 b == First({ c \in idx : c > a /\ IsFence(ai_response[c]) })
             IN  SubTokens(ai_response, a + 1, b - 1)
        ELSE IF braces # {}
        THEN LET a == First(braces)
                 b == Final({ c \in idx : HasClose(ai_response[c]) })
             IN  SubTokens(ai_response, a, b)
        ELSE ai_response

\* Line 252
DuplicateTarget_three(count) == count > 2
DuplicateTarget(count) == count > 1

\* Lines 244-259: some name is the target of more than one label
duplicates_found(mapping) ==
    \E e \in 1..Len(mapping) :
        DuplicateTarget(Cardinality({ f \in 1..Len(mapping) :
                                        mapping[f].new = mapping[e].new }))

\* Lines 198-275.  json.loads accepts one JSON value and nothing else; a
\* value that is not an object has no items() (line 241 raises).
parse_mapping_response(ai_response) ==
    LET json_str == JsonStr(ai_response)
    IN  IF Len(json_str) = 1 /\ IsObj(json_str[1])
        THEN [mapping |-> json_str[1].obj, raised |-> FALSE,
              warned |-> duplicates_found(json_str[1].obj)]
        ELSE IF json_str = << Token("list") >>
        THEN [mapping |-> EmptyMapping, raised |-> TRUE, warned |-> FALSE]
        ELSE [mapping |-> EmptyMapping, raised |-> FALSE, warned |-> FALSE]

\* Lines 302-307
CatchAll_none(parsed) == parsed
CatchAll(parsed) ==
    IF parsed.raised THEN [mapping |-> EmptyMapping, raised |-> FALSE, warned |-> FALSE]
    ELSE parsed

\* Lines 281-307; the response is Raised when the call raises
get_speaker_mapping(ai_response) ==
    IF ai_response.raised
    THEN [mapping |-> EmptyMapping, raised |-> FALSE, warned |-> FALSE]
    ELSE CatchAll(parse_mapping_response(ai_response.tokens))

(***************************************************************************)
(* process_transcript as a state machine: the mapping is obtained, the     *)
(* transcript rewritten and written out; replace_speakers_again applies    *)
(* _replace_speakers with the same mapping to the rewritten transcript.    *)
(***************************************************************************)
TranscriptLabels == { A_seg1, A_seg2, B_seg3 }
MappedNames == { Yamada, A_seg2, UnknownName }
Separators == { ": ", ":" }

RemapTranscripts ==
    SeqsUpTo([sep : Separators, speaker : TranscriptLabels], MaxUtterances)

RemapMappings ==
    { EmptyMapping } \cup
    { m \in SeqsUpTo([old : TranscriptLabels, new : MappedNames], MaxEntries) :
        \A a \in 1..Len(m), b \in 1..Len(m) : a # b => m[a].old # m[b].old }

\* responses that are no JSON object: prose, a JSON array, prose with an
\* opening brace only
UnparsableResponses ==
    { Response(<< Token("prose") >>), Response(<< Token("list") >>),
      Response(<< Token("lbrace"), Token("prose") >>) }

RemapResponses ==
    { CallRaised } \cup UnparsableResponses
        \cup { Response(<< Obj(m) >>) : m \in RemapMappings }

InitRemap ==
    /\ InitRun
    /\ ret = NoCall
    /\ call \in [fn : {"process_transcript"}, transcript : RemapTranscripts,
                  ai_response : RemapResponses, stage : {"start"},
                  mapping : {EmptyMapping}, warned : {FALSE},
                  output : { <<>> }, again : { <<>> }, again_count : {0}]

\* Line 68
process_transcript_mapping ==
    /\ call.fn = "process_transcript"
    /\ call.stage = "start"
    /\ LET got == get_speaker_mapping(call.ai_response)
       IN  call' = [call EXCEPT !.stage = IF got.raised THEN "raised" ELSE "mapped",
                                !.mapping = got.mapping,
                                !.warned = got.warned]
    /\ UNCHANGED runVars
    /\ UNCHANGED ret

\* Lines 91-116
process_transcript_replace ==
    /\ call.fn = "process_transcript"
    /\ call.stage = "mapped"
    /\ call' = [call EXCEPT !.stage = "written",
                            !.output = replace_speakers(call.transcript, call.mapping)]
    /\ ret' = [fn |-> "process_transcript",
               value |-> replace_speakers(call.transcript, call.mapping)]
    /\ UNCHANGED runVars

\* _replace_speakers on the rewritten transcript, same mapping
replace_speakers_again ==
    /\ call.fn = "process_transcript"
    /\ call.stage = "written"
    /\ call' = [call EXCEPT !.stage = "again",
                            !.again = replace_speakers(call.output, call.mapping),
                            !.again_count = total_replacements(call.output, call.mapping)]
    /\ UNCHANGED runVars
    /\ UNCHANGED ret

NextRemap ==
    \/ process_transcript_mapping
    \/ process_transcript_replace
    \/ replace_speakers_again

SpecRemap == InitRemap /\ [][NextRemap]_vars

\* _parse_mapping_response as a function of the response
MaxTokens == 3

ParseTokens ==
    { Token(t) : t \in {"prose", "fence_open", "fence_close", "lbrace", "rbrace", "list"} }
        \cup { Obj(<< [old |-> A_seg1, new |-> Yamada] >>),
               Obj(<< [old |-> A_seg2, new |-> Yamada] >>) }

InitParse ==
    /\ InitRun
    /\ ret = NoCall
    /\ call \in [fn : {"parse_mapping_response"},
                  ai_response : SeqsUpTo(ParseTokens, MaxTokens)]

parse_response ==
    /\ call.fn = "parse_mapping_response"
    /\ ret = NoCall
    /\ ret' = [fn |-> "parse_mapping_response",
               value |-> parse_mapping_response(call.ai_response)]
    /\ UNCHANGED runVars
    /\ UNCHANGED call

NextParse == parse_response

SpecParse == InitParse /\ [][NextParse]_vars

(***************************************************************************)
(* Properties of the speaker remapper.                                     *)
(***************************************************************************)
Rewritten == call.fn = "process_transcript" /\ call.stage \in {"written", "again"}
HasKey(mapping, label) == \E e \in 1..Len(mapping) : mapping[e].old = label
ValueOf(mapping, label) ==
    mapping[CHOOSE e \in 1..Len(mapping) : mapping[e].old = label].new
\* the entries whose name is not the unknown marker of the model
Named(mapping) == SelectSeq(mapping, LAMBDA e : e.new # UnknownName)
Utterances == 1..Len(call.transcript)
ResponseIsMapping ==
    /\ ~call.ai_response.raised
    /\ Len(call.ai_response.tokens) = 1
    /\ IsObj(call.ai_response.tokens[1])

\* C15 (as claimed): _replace_speakers applied again with the same mapping to
\* the rewritten transcript performs no replacement and leaves the text
\* unchanged, for every mapping.
C15_SecondPassChangesNothing ==
    (call.fn = "process_transcript" /\ call.stage = "again") =>
        /\ call.again = call.output
        /\ call.again_count = 0

\* C16 (as claimed): after _replace_speakers every utterance whose original
\* label is a key of the filtered mapping carries the name the mapping
\* gives that label, and every other utterance keeps its label.
C16_EveryLabelGetsItsName ==
    Rewritten =>
        \A k \in Utterances :
            LET label == call.transcript[k].speaker
            IN  call.output[k].speaker =
                    IF HasKey(Named(call.mapping), label)
                    THEN ValueOf(Named(call.mapping), label)
                    ELSE label

\* C17: an entry whose name holds an unknown marker is never applied: the
\* utterances of its label stay as they are, and the other entries are
\* still applied (an entry whose name is no source label of the mapping
\* gives its name to every utterance of its label).
C17_UnknownNeverApplied ==
    Rewritten =>
        \A e \in 1..Len(call.mapping) :
            IF call.mapping[e].new = UnknownName
            THEN \A k \in Utterances :
                    call.transcript[k].speaker = call.mapping[e].old =>
                        call.output[k] = call.transcript[k]
            ELSE ~HasKey(call.mapping, call.mapping[e].new) =>
                    \A k \in Utterances :
                        call.transcript[k].speaker = call.mapping[e].old =>
                            call.output[k].speaker = call.mapping[e].new

C17_Witness ==
    /\ Rewritten
    /\ call.mapping = << [old |-> B_seg3, new |-> UnknownName],
                         [old |-> A_seg1, new |-> Yamada] >>
    /\ call.transcript = << [sep |-> ": ", speaker |-> B_seg3],
                            [sep |-> ": ", speaker |-> A_seg1] >>
    /\ call.output = << [sep |-> ": ", speaker |-> B_seg3],
                        [sep |-> ": ", speaker |-> Yamada] >>

\* pairs of entries with the same name
DuplicatePairs(mapping) ==
    { p \in (1..Len(mapping)) \X (1..Len(mapping)) :
        p[1] # p[2] /\ mapping[p[1]].new = mapping[p[2]].new }

\* C18 (as claimed): when two labels have the same name the warning is
\* raised, the mapping is returned in full, nothing raises, and every
\* utterance of either label carries the one name.
C18_DuplicatesCollapse ==
    (call.fn = "process_transcript" /\ ResponseIsMapping
        /\ DuplicatePairs(call.ai_response.tokens[1].obj) # {}) =>
        /\ call.stage # "raised"
        /\ call.stage # "start" =>
              call.warned /\ call.mapping = call.ai_response.tokens[1].obj
        /\ Rewritten =>
              \A p \in DuplicatePairs(call.mapping), k \in Utterances :
                  call.transcript[k].speaker = call.mapping[p[1]].old =>
                      call.output[k].speaker = call.mapping[p[1]].new

\* C18 (amended): when two labels have the same name the warning is raised,
\* the mapping is returned in full and nothing raises; the utterances of
\* both labels carry the one name when that name holds no unknown marker
\* and is not itself a source label of the mapping, and keep their labels
\* when the name holds an unknown marker.
C18_DuplicatesWarned ==
    (call.fn = "process_transcript" /\ ResponseIsMapping
        /\ DuplicatePairs(call.ai_response.tokens[1].obj) # {}) =>
        /\ call.stage # "raised"
        /\ call.stage # "start" =>
              call.warned /\ call.mapping = call.ai_response.tokens[1].obj
        /\ Rewritten =>
              \A p \in DuplicatePairs(call.mapping), k \in Utterances :
                  call.transcript[k].speaker = call.mapping[p[1]].old =>
                      IF call.mapping[p[1]].new = UnknownName
                      THEN call.output[k] = call.transcript[k]
                      ELSE ~HasKey(call.mapping, call.mapping[p[1]].new) =>
                              call.output[k].speaker = call.mapping[p[1]].new

C18_Witness ==
    /\ Rewritten
    /\ call.warned
    /\ call.mapping = << [old |-> A_seg1, new |-> Yamada],
                         [old |-> A_seg2, new |-> Yamada] >>
    /\ call.transcript = << [sep |-> ": ", speaker |-> A_seg1],
                            [sep |-> ":", speaker |-> A_seg2] >>
    /\ call.output = << [sep |-> ": ", speaker |-> Yamada],
                        [sep |-> ": ", speaker |-> Yamada] >>

\* C19: when the call raises or the response is no mapping,
\* _get_speaker_mapping returns the empty mapping without raising and the
\* rewritten transcript equals the original.
C19_FailureLeavesTranscript ==
    (call.fn = "process_transcript"
        /\ (call.ai_response.raised \/ call.ai_response \in UnparsableResponses)) =>
        /\ call.stage # "raised"
        /\ call.stage # "start" => call.mapping = EmptyMapping
        /\ Rewritten => call.output = call.transcript /\ ret.value = call.transcript

C19_Witness ==
    /\ Rewritten
    /\ call.ai_response = Response(<< Token("list") >>)
    /\ call.mapping = EmptyMapping
    /\ Len(call.transcript) = 2
    /\ call.transcript[2].sep = ":"
    /\ call.output = call.transcript

ParseDone == ret.fn = "parse_mapping_response"
ObjectsAt(tokens) == { k \in 1..Len(tokens) : IsObj(tokens[k]) }

\* the first object stands in a code fence, nothing fenced before it
FencedFirst(tokens) ==
    LET o == First(ObjectsAt(tokens))
    IN  /\ o > 1 /\ o < Len(tokens)
        /\ tokens[o - 1].t = "fence_open"
        /\ tokens[o + 1].t = "fence_close"
        /\ \A j \in 1..(o - 2) : ~IsFence(tokens[j])

\* no fence at all: the objects stand in prose
InProse(tokens) == \A j \in 1..Len(tokens) : ~IsFence(tokens[j])

\* C20 (as claimed): for a response that holds the mapping in a code fence
\* or in prose (also prose with further braces or a second object), the
\* mapping returned is the first JSON object of the response.
C20_FirstObjectReturned ==
    (ParseDone /\ ObjectsAt(call.ai_response) # {}
        /\ (FencedFirst(call.ai_response) \/ InProse(call.ai_response))) =>
        /\ ~ret.value.raised
        /\ ret.value.mapping = call.ai_response[First(ObjectsAt(call.ai_response))].obj

(***************************************************************************)
(* The text sent with a prompt.                                            *)
(*   src/src/services/meeting_title_service.py lines 110-144               *)
(*   src/src/services/speaker_remapper.py lines 291-298                    *)
(* A transcript is a sequence of pieces: "M" is one speaker marker         *)
(* ('"speaker":'), "t" is text that holds no marker.                       *)
(***************************************************************************)
MaxLead == 1
MaxGap == 2
MarkerLimit == 60

\* lead pieces of text, then count markers, each followed by gap pieces
MarkedText(lead, count, gap) ==
    [k \in 1..(lead + count * (gap + 1)) |->
        IF k > lead /\ (k - lead - 1) % (gap + 1) = 0 THEN "M" ELSE "t"]

\* transcript_text.count(marker)
MarkerCount(text) == Cardinality({ k \in 1..Len(text) : text[k] = "M" })

\* transcript_text.find(marker, from): the first marker at or after the
\* position from, 0 for -1 (positions are 1-based here)
FindMarker(text, from) ==
    LET at == { k \in from..Len(text) : text[k] = "M" }
    IN  IF at = {} THEN 0 ELSE CHOOSE k \in at : \A j \in at : k <= j

\* Lines 120-130: the loop of MarkerLimit finds; the position of the last
\* marker found, 0 when a find failed
RECURSIVE FindMarkers(_, _, _)
FindMarkers(text, current_index, left) ==
    IF left = 0 THEN current_index
    ELSE LET found == FindMarker(text, current_index + 1)
         IN  IF found = 0 THEN 0 ELSE FindMarkers(text, found, left - 1)

\* transcript_text[:cutoff_index]
Prefix(text, cutoff) == [k \in 1..(cutoff - 1) |-> text[k]]

\* Lines 111-139
text_for_title(transcript_text) ==
    LET marker_count == MarkerCount(transcript_text)
        cutoff_index == FindMarkers(transcript_text, 0, MarkerLimit)
    IN  IF marker_count = 0 THEN transcript_text
        ELSE IF marker_count > MarkerLimit
        THEN IF cutoff_index = 0 THEN transcript_text
             ELSE Prefix(transcript_text, cutoff_index)
        ELSE transcript_text

\* speaker_remapper.py line 294: the whole transcript follows the prompt
text_for_remap(transcript_text) == transcript_text

PromptCounts ==
    {0, 1, 2, 3, MarkerLimit - 1, MarkerLimit, MarkerLimit + 1, MarkerLimit + 2}

InitPrompt ==
    /\ InitRun
    /\ ret = NoCall
    /\ call \in { [fn |-> f, text |-> MarkedText(lead, count, gap)] :
                    f \in {"generate_title", "get_speaker_mapping"},
                    lead \in 0..MaxLead, count \in PromptCounts, gap \in 1..MaxGap }

\* meeting_title_service.py line 144
generate_title ==
    /\ call.fn = "generate_title"
    /\ ret = NoCall
    /\ ret' = [fn |-> "generate_title", value |-> text_for_title(call.text)]
    /\ UNCHANGED runVars
    /\ UNCHANGED call

\* speaker_remapper.py line 298
summarize_minutes ==
    /\ call.fn = "get_speaker_mapping"
    /\ ret = NoCall
    /\ ret' = [fn |-> "get_speaker_mapping", value |-> text_for_remap(call.text)]
    /\ UNCHANGED runVars
    /\ UNCHANGED call

NextPrompt ==
    \/ generate_title
    \/ summarize_minutes

SpecPrompt == InitPrompt /\ [][NextPrompt]_vars

\* the position of the n-th marker of the text
NthMarker(text, n) ==
    CHOOSE k \in 1..Len(text) :
        text[k] = "M" /\ Cardinality({ j \in 1..k : text[j] = "M" }) = n

\* C21 (as claimed): with more than 60 markers the text sent is the prefix
\* before the 61st marker, which holds 60 markers; otherwise the full text
\* is sent.
C21_PromptCutBefore61st ==
    ret.fn \in {"generate_title", "get_speaker_mapping"} =>
        IF MarkerCount(call.text) > MarkerLimit
        THEN /\ ret.value = Prefix(call.text, NthMarker(call.text, MarkerLimit + 1))
             /\ MarkerCount(ret.value) = MarkerLimit
        ELSE ret.value = call.text

(***************************************************************************)
(* The files of a run (transcription.py lines 320-375).                    *)
(***************************************************************************)
Written(name) == name \in files' /\ name \notin files
Deleted(name) == name \in files /\ name \notin files'
WriteFailed == error \in {"save_json", "save_summary"}

\* C22: the merged transcript is written only when the intermediate
\* artifact is already there, the segment directory is deleted only when
\* the merged transcript is already there, and a run that failed to write
\* either file leaves the segment directory in place.
C22_WritesBeforeCleanup ==
    [][ /\ Written("summary_txt") => "complete_json" \in files
        /\ Deleted("segments_dir") => "summary_txt" \in files
        /\ WriteFailed' => "segments_dir" \in files' ]_vars

C22_Witness ==
    /\ pc = "done"
    /\ "segments_dir" \notin files
    /\ {"complete_json", "summary_txt"} \subseteq files

\* C23: whether or not the segment directory could be removed, the run
\* ends successfully with the merged text and the warning it had before
\* the removal, and the transcript files written stay in place.
C23_CleanupFailureHarmless ==
    [][ pc = "finish" =>
            /\ pc' = "done"
            /\ result' = [status |-> "ok", formatted_text |-> formatted_text,
                          warning |-> has_reached_max_retries]
            /\ formatted_text' = formatted_text
            /\ files \cap Transcripts \subseteq files' ]_vars

C23_Witness ==
    /\ pc = "done"
    /\ "segments_dir" \in files
    /\ result.status = "ok"
    /\ "summary_txt" \in files

\* C24: when the remapper raised, the run goes on with the transcript file
\* written by the transcription: that file, not a remapped one, is the one
\* the CSV and minutes steps are given, and the remap error alone does not
\* end the run.
C24_RemapFailureKeepsTranscript ==
    results.speaker_remap = "error" =>
        /\ pc = "done"
        /\ results.formatted_file = "summary_txt"
        /\ results.returned => results.csv_input = "summary_txt"
        /\ ~results.returned => ~results.success

C24_Witness ==
    /\ results.speaker_remap = "error"
    /\ results.returned
    /\ results.success
    /\ results.csv_input = "summary_txt"

\* C25: the text kept for a segment is the text of its last attempt. No
\* attempt follows one that returned a text that is not defective; a
\* segment whose last attempt returned a text has that text, tagged, as its
\* one entry; a segment whose last attempt raised has no entry, also when
\* an earlier attempt had returned a defective text.
C25_LastAttemptKept ==
    \A s \in Segments :
        /\ \A k \in 1..(Len(attempts[s]) - 1) : attempts[s][k] \in {"defective", "fail"}
        /\ Finished(s) =>
              IF Last(attempts[s]) \in {"ok", "defective"}
              THEN /\ returned[s] # Raised
                   /\ \A k \in EntriesOf(all_transcriptions, s) :
                          all_transcriptions[k].text = Tagged(s)
                   /\ Cardinality(EntriesOf(all_transcriptions, s)) = 1
              ELSE EntriesOf(all_transcriptions, s) = {}

C25_Witness ==
    \E s \in Segments :
        /\ attempts[s] = <<"defective", "fail", "fail">>
        /\ EntriesOf(all_transcriptions, s) = {}
        /\ pc = "done"

\* C26 (as claimed): a segment has no entry in the aggregate only after all
\* max_retries + 1 attempts were made for it, and then the flag is set and
\* the result of the run carries the warning.
C26_DroppedOnlyWhenExhausted ==
    \A s \in Segments :
        (Finished(s) /\ EntriesOf(all_transcriptions, s) = {}) =>
            /\ Len(attempts[s]) = max_retries + 1
            /\ has_reached_max_retries
            /\ pc = "done" => result.warning

\* the calls of transcribe_audio made so far in the run
TotalCalls == Len(Flatten(attempts))

\* C27: every segment starts with the full budget of max_retries + 1
\* attempts. The attempt counter counts the calls made for the current
\* segment only, a segment ends with fewer than max_retries + 1 calls only
\* because its own last call returned a text that is not defective, and a
\* run over N segments makes at most N * (max_retries + 1) calls.
C27_FreshBudgetPerSegment ==
    /\ pc = "transcribe" => attempt = Len(attempts[i])
    /\ \A s \in Segments :
          (Finished(s) /\ Len(attempts[s]) < max_retries + 1) =>
              Last(attempts[s]) \in {"ok", "empty"}
    /\ TotalCalls <= split_files * (max_retries + 1)

C27_Witness ==
    /\ split_files = MaxSegments
    /\ AllOf(1, "fail")
    /\ Len(attempts[MaxSegments]) = max_retries + 1
    /\ TotalCalls = MaxSegments * (max_retries + 1)

\* a segment of the current run used its last attempt without success
Exhausted(s) ==
    Len(attempts[s]) = max_retries + 1 /\ Last(attempts[s]) \in {"defective", "fail"}

\* C28: the flag of the instance tells of the current run only: it is set
\* exactly when a segment of this run was exhausted, whatever the flag was
\* when process_audio was entered, and the warning of the result follows it.
C28_FlagOfThisRunOnly ==
    /\ has_reached_max_retries <=> \E s \in Segments : Exhausted(s)
    /\ pc = "done" => (result.warning <=> \E s \in Segments : Exhausted(s))

C28_Witness ==
    /\ call.fn = "process_audio"
    /\ call.flag_before
    /\ pc = "done"
    /\ ~result.warning
    /\ ~has_reached_max_retries

(***************************************************************************)
(* Progress of a run.  The loops of _process_with_gemini are sequential    *)
(* code: as long as a segment is left, the next call of transcribe_audio   *)
(* is made and it returns or raises.                                       *)
(***************************************************************************)
TranscribeStep == \E response \in Responses \cup {Raised} : transcribe_attempt(response)

SpecFair == Init /\ [][Next]_vars /\ WF_vars(TranscribeStep)

\* C29 (as claimed): whatever the calls return or raise, a run that has
\* started on its segments leaves the loop with every segment finished and
\* reaches the aggregation; no outcome makes it loop for ever or abort.
C29_RunReachesAggregation ==
    (pc = "transcribe") ~> (pc = "save_json" /\ \A s \in Segments : Finished(s))

(***************************************************************************)
(* _find_optimal_split_point on its own: audios of up to MaxSilences gaps  *)
(* and targets that lie between two gaps, at equal distance of both        *)
(* (1550) or nearer to one of them.                                        *)
(***************************************************************************)
MaxSilences == 2
SilenceLengths == {900, 3000}
SilenceTargets == {1000, 1550, 2000, 2500}

SilenceAudios ==
    { a \in [len : SilenceLengths, loud : LoudLevels, gaps : GapSeqs(MaxSilences)] :
        /\ Ascending(a.gaps)
        /\ \A k \in 1..Len(a.gaps) : a.gaps[k][2] <= a.len }

InitSilence ==
    /\ InitRun
    /\ ret = NoCall
    /\ call \in [fn : {"find_optimal_split_point"}, audio : SilenceAudios,
                 target_ms : SilenceTargets]

\* Lines 116-176
find_split_point ==
    /\ call.fn = "find_optimal_split_point"
    /\ ret = NoCall
    /\ ret' = [fn |-> "find_optimal_split_point",
               value |-> find_optimal_split_point(call.audio, call.target_ms)]
    /\ UNCHANGED runVars
    /\ UNCHANGED call

NextSilence == find_split_point

SpecSilence == InitSilence /\ [][NextSilence]_vars

\* the search window of the call
WindowTarget == Min2(call.target_ms, call.audio.len)
WindowStart == Max2(0, WindowTarget - margin_ms)
WindowEnd == Min2(call.audio.len, WindowTarget + margin_ms)
\* the thresholds at which the window holds a silence
Yielding ==
    { db \in {-40, -35, -30, -25} :
        detect_silence(call.audio, WindowStart, WindowEnd, db) # <<>> }

\* C30: when the window is searched, the silences used are those of the
\* lowest of the thresholds -40, -35, -30, -25 that finds any, and the
\* point returned is the midpoint of the one of them whose midpoint is
\* nearest to the target, the first of them when several are as near; the
\* point of the least volume is returned exactly when no threshold finds a
\* silence, and the call always returns a point inside the window.
C30_FirstThresholdNearestSilence ==
    (ret.fn = "find_optimal_split_point"
        /\ WindowEnd - WindowStart >= min_silence_len * 2) =>
        /\ ret.value.point \in WindowStart..WindowEnd
        /\ IF Yielding = {}
           THEN ret.value.kind = "min_volume"
           ELSE LET first == CHOOSE db \in Yielding : \A other \in Yielding : db <= other
                    ranges == detect_silence(call.audio, WindowStart, WindowEnd, first)
                    Away(k) == Abs((ranges[k][1] + ranges[k][2]) \div 2
                                   - (WindowTarget - WindowStart))
                    best == CHOOSE k \in 1..Len(ranges) :
                                /\ \A j \in 1..Len(ranges) : Away(k) <= Away(j)
                                /\ \A j \in 1..(k - 1) : Away(j) > Away(k)
                IN  /\ ret.value.kind = "silence"
                    /\ ret.value.point =
                           WindowStart + (ranges[best][1] + ranges[best][2]) \div 2

\* two silences at the first threshold, as far from the target before it
\* as after it: the earlier one is taken
C30_Witness ==
    /\ ret.fn = "find_optimal_split_point"
    /\ call.audio.gaps = << <<300, 900>>, <<2200, 2800>> >>
    /\ call.target_ms = 1550
    /\ -40 \in Yielding
    /\ ret.value = [kind |-> "silence", point |-> 600]

====
